---- MODULE Spec2Model ----
(***************************************************************************)
(* KILNSOFT page background: the ember particle script (src/script.js) and *)
(* the WebGL smoke renderer (src/shader-smoke.js).                         *)
(*                                                                         *)
(* Lengths are fixed-point integers, Scale units per pixel.  Angles are    *)
(* integers in units of 1/Turn of a full turn (6 degrees); Math.sin is the *)
(* table SinQuarter extended by symmetry.  Math.random() returns k/Turn    *)
(* for an integer k in 0..Turn-1; every call site draws k from a small set *)
(* and applies the code's own formula to it.                               *)
(***************************************************************************)
EXTENDS Integers, Sequences, FiniteSets

VARIABLES win,            \* window.innerWidth / innerHeight, <<w, h>> in pixels
          lastEvent,      \* the script or callback the host ran last
          canvas,         \* particleCanvas width / height, <<w, h>> in pixels
          particles,      \* the particles array
          emberListening, \* script.js has registered its resize listener
          emberRaf,       \* pending requestAnimationFrame(animateParticles) callbacks
          log,            \* per particle: the branches its last animateParticles step took
          handler         \* the WebGLHandler instance and the GL calls it issued

vars == <<win, lastEvent, canvas, particles, emberListening, emberRaf, log, handler>>

(***************************************************************************)
(* Bounds and sampled inputs                                               *)
(***************************************************************************)
\* Number of particles kept by the model (the source keeps 90 independent ones).
EMBER_COUNT == 1

\* Fixed-point resolution: units per pixel.
Scale == 10^4

\* sin(6 degrees * k) * Scale for k = 0..15.
SinQuarter ==
  <<0, 1045, 2079, 3090, 4067, 5000, 5878, 6691,
    7431, 8090, 8660, 9135, 9511, 9781, 9945, 10000>>

\* Angle units per full turn (2 * Math.PI).
Turn == 4 * (Len(SinQuarter) - 1)

\* Window sizes the host can report, in pixels.
WindowSizes == {<<8, 2>>, <<40, 4>>}

\* Math.random() draws k (standing for k/Turn) per call site.
BaseSizeDraws == {20}          \* baseSize 3
BaseXDraws == {0, 30}          \* baseX 0, width/2
YDraws == {0, 30}              \* y 0, height/2
SpeedDraws == {0, 10}          \* speed 0.8, 1.0
DriftDraws == {0, 45}          \* drift -0.2, 0.1
PhaseDraws == {0, 30}          \* flickerPhase 0, pi
CoinDraws == {0, 30}           \* < 0.4: loops; >= 0.4: no loop
LoopDraws == {9}               \* loopRadius 11
AngleDraws == {15, 45}         \* angle pi/2, 3pi/2
\* angularSpeed = Math.random() * 0.08 + 0.04 rad lies in [0.04, 0.12); the value
\* of that range that is a whole number of angle units is 1 (0.1047 rad).
AngularSpeeds == {1}
\* performance.now() * 0.02, in angle units.
Times == {0, 15}

Indices == 1..EMBER_COUNT

(***************************************************************************)
(* script.js                                                               *)
(***************************************************************************)
Sin(a) ==
  LET m == a % Turn
      q == Turn \div 4
  IN  IF m <= q THEN SinQuarter[m + 1]
      ELSE IF m <= 2 * q THEN SinQuarter[2 * q - m + 1]
      ELSE IF m <= 3 * q THEN -SinQuarter[m - 2 * q + 1]
      ELSE -SinQuarter[Turn - m + 1]

\* a * b for two fixed-point numbers: floor(a * b / Scale), computed without
\* leaving 32 bits
Mul(a, b) == a * (b \div Scale) + (a * (b % Scale)) \div Scale

\* Math.random() * n for an integer n, as a fixed-point number
RandomTimes(k, n) == (k * n * Scale) \div Turn

\* Math.random() < 0.4 ? Math.random() * 20 + 8 : 0
LoopRadiusOf(coin, k) == IF coin * 10 < 4 * Turn THEN RandomTimes(k, 20) + 8 * Scale ELSE 0

\* baseX + Math.sin(angle) * loopRadius
LoopX(baseX, angle, loopRadius) == baseX + Mul(Sin(angle), loopRadius)

\* one iteration of the construction loop
NewParticle(cv, d) ==
  LET baseSize == RandomTimes(d.baseSize, 3) + 2 * Scale
      baseX == RandomTimes(d.baseX, cv[1])
      loopRadius == LoopRadiusOf(d.coin, d.loop)
  IN  [ baseX |-> baseX,
        x |-> LoopX(baseX, d.angle, loopRadius),
        y |-> RandomTimes(d.y, cv[2]),
        baseSize |-> baseSize,
        size |-> baseSize,
        speed |-> (RandomTimes(d.speed, 12) + 8 * Scale) \div 10,
        drift |-> ((2 * d.drift - Turn) * 4 * Scale) \div (2 * Turn * 10),
        flickerPhase |-> d.phase,
        loopRadius |-> loopRadius,
        angle |-> d.angle,
        angularSpeed |-> d.angularSpeed ]

ConstructionDraws ==
  [ baseSize : BaseSizeDraws, baseX : BaseXDraws, y : YDraws, speed : SpeedDraws,
    drift : DriftDraws, phase : PhaseDraws, coin : CoinDraws, loop : LoopDraws,
    angle : AngleDraws, angularSpeed : AngularSpeeds ]

\* drawEmber that leaves the radius as it was
DrawEmberKeepingSize(p, t) == p

\* the size drawEmber assigns: baseSize * (0.3 + 0.2 * sin(t * 0.02 + flickerPhase))
DrawEmber(p, t) ==
  LET flicker == (3 * Scale) \div 10 + (2 * Sin(t + p.flickerPhase)) \div 10
  IN  [p EXCEPT !.size = Mul(p.baseSize, flicker)]

\* the update without the rise: p.y is left alone
MoveWithoutRise(p) ==
  IF p.loopRadius > 0
    THEN [p EXCEPT !.angle = p.angle + p.angularSpeed,
                   !.baseX = p.baseX + p.drift,
                   !.x = LoopX(p.baseX + p.drift, p.angle + p.angularSpeed, p.loopRadius)]
    ELSE [p EXCEPT !.x = p.x + p.drift]

\* p.y -= p.speed, then the loop / drift update of x
Move(p) ==
  IF p.loopRadius > 0
    THEN [p EXCEPT !.y = p.y - p.speed,
                   !.angle = p.angle + p.angularSpeed,
                   !.baseX = p.baseX + p.drift,
                   !.x = LoopX(p.baseX + p.drift, p.angle + p.angularSpeed, p.loopRadius)]
    ELSE [p EXCEPT !.y = p.y - p.speed,
                   !.x = p.x + p.drift]

\* the respawn test without the radius
OffTopIgnoringRadius(p) == p.y < 0

\* the condition of the respawn branch
OffTop(p) == p.y < -p.size

RespawnDraws == [ baseX : BaseXDraws, angle : AngleDraws, coin : CoinDraws, loop : LoopDraws ]

\* a particle whose respawn branch is not taken makes no Math.random() call
NoDraw == [ baseX |-> 0, angle |-> 0, coin |-> 0, loop |-> 0 ]

\* the fields the respawn branch assigns from Math.random()
RandomizedFields == {"baseX", "angle", "loopRadius"}

\* a respawn that also re-rolls the flicker phase
RespawnBodyWithPhase(p, cv, d) ==
  LET baseX == RandomTimes(d.baseX, cv[1])
      loopRadius == LoopRadiusOf(d.coin, d.loop)
  IN  [p EXCEPT !.y = cv[2] * Scale + p.size,
                !.baseX = baseX,
                !.angle = d.angle,
                !.loopRadius = loopRadius,
                !.flickerPhase = d.angle,
                !.x = LoopX(baseX, d.angle, loopRadius)]

\* the body of the respawn branch
RespawnBody(p, cv, d) ==
  LET baseX == RandomTimes(d.baseX, cv[1])
      loopRadius == LoopRadiusOf(d.coin, d.loop)
  IN  [p EXCEPT !.y = cv[2] * Scale + p.size,
                !.baseX = baseX,
                !.angle = d.angle,
                !.loopRadius = loopRadius,
                !.x = LoopX(baseX, d.angle, loopRadius)]

Respawn(p, cv, d) == IF OffTop(p) THEN RespawnBody(p, cv, d) ELSE p

\* the conditions of the two horizontal wrap statements
PastLeft(p) == p.x < -10 * Scale
PastRight(p, cv) == p.x > cv[1] * Scale + 10 * Scale

\* a left wrap that carries the anchor along with x
WrapLeftMovingAnchor(p, cv) ==
  IF PastLeft(p)
    THEN [p EXCEPT !.x = cv[1] * Scale + 10 * Scale, !.baseX = cv[1] * Scale + 10 * Scale]
    ELSE p

\* if (p.x < -10) p.x = canvas.width + 10;
WrapLeft(p, cv) == IF PastLeft(p) THEN [p EXCEPT !.x = cv[1] * Scale + 10 * Scale] ELSE p

\* the right wrap left out
WrapRightSkipped(p, cv) == p

\* if (p.x > canvas.width + 10) p.x = -10;
WrapRight(p, cv) == IF PastRight(p, cv) THEN [p EXCEPT !.x = -10 * Scale] ELSE p

Wrap(p, cv) == WrapRight(WrapLeft(p, cv), cv)

\* the particle as the respawn check finds it, and as the wrap finds it
Moved(p, t) == Move(DrawEmber(p, t))
Respawned(p, t, cv, d) == Respawn(Moved(p, t), cv, d)

\* the forEach body for one particle
Step(p, t, cv, d) == Wrap(Respawned(p, t, cv, d), cv)

\* which branches the forEach body takes for one particle
Branches(p, t, cv, d) ==
  LET m == Moved(p, t)
      r == Respawned(p, t, cv, d)
  IN  [ respawn |-> OffTop(m),
        drawn |-> IF OffTop(m) THEN RandomizedFields ELSE {},
        wrap |-> IF PastLeft(r) THEN "left"
                 ELSE IF PastRight(r, cv) THEN "right" ELSE "none" ]

NoBranches == [ respawn |-> FALSE, drawn |-> {}, wrap |-> "none" ]

\* the Math.random() results one animateParticles call can consume at time t
FrameDraws(t) ==
  { d \in [Indices -> RespawnDraws \cup {NoDraw}] :
      \A i \in Indices : (d[i] = NoDraw) <=> ~OffTop(Moved(particles[i], t)) }

\* animateParticles(): every particle is drawn and updated, the next frame requested
AnimateParticles ==
  \E t \in Times : \E d \in FrameDraws(t) :
    /\ particles' = [i \in Indices |-> Step(particles[i], t, canvas, d[i])]
    /\ log' = [i \in Indices |-> Branches(particles[i], t, canvas, d[i])]

\* the rest of the script after the construction loop: the first animateParticles()
\* call and the registration of the resize listener
LoadEmber ==
  /\ ~emberListening
  /\ AnimateParticles
  /\ emberRaf' = emberRaf + 1
  /\ emberListening' = TRUE
  /\ lastEvent' = "load"
  /\ UNCHANGED <<win, canvas, handler>>

\* the frame callback requested by animateParticles
Frame ==
  /\ emberRaf > 0
  /\ AnimateParticles
  /\ emberRaf' = (emberRaf - 1) + 1
  /\ lastEvent' = "frame"
  /\ UNCHANGED <<win, canvas, emberListening, handler>>

\* script.js's resize listener
EmberResize(sz) == IF emberListening THEN sz ELSE canvas

(***************************************************************************)
(* shader-smoke.js                                                         *)
(***************************************************************************)
ShaderTypes == {"VERTEX_SHADER", "FRAGMENT_SHADER"}

\* What the GL implementation answers: whether getContext('webgl2') returns a
\* context, whether each stage compiles, whether a complete program links.
GlOutcomes == [ context : BOOLEAN, vertex : BOOLEAN, fragment : BOOLEAN, link : BOOLEAN ]

\* the handler before `new WebGLHandler(canvas)`; cn, viewport and vp are <<>>
\* until this code assigns them
NoHandler ==
  [ constructed |-> FALSE, threw |-> FALSE, gl |-> FALSE, program |-> FALSE,
    compiled |-> [ty \in ShaderTypes |-> "unset"],
    attached |-> {}, deleted |-> {}, linked |-> FALSE, inUse |-> FALSE,
    errors |-> <<>>, failedAt |-> 0, calls |-> <<>>, last |-> "none",
    cn |-> <<>>, viewport |-> <<>>, vp |-> <<>>, listening |-> FALSE, raf |-> 0 ]

\* one call this.gl.<name>(...); on a null this.gl it throws a TypeError
Call(h, name) ==
  IF h.gl THEN [h EXCEPT !.calls = Append(@, name)] ELSE [h EXCEPT !.threw = TRUE]

\* console.error(...) of a compile or link diagnostic; failedAt keeps the number of
\* GL calls issued when the first failure had been handled
LogError(h, what) ==
  [h EXCEPT !.errors = Append(@, what),
            !.failedAt = IF @ = 0 THEN Len(h.calls) ELSE @]

\* _compile(src, type), `ok` being COMPILE_STATUS
Compile(h, type, ok) ==
  LET h0 == Call(Call(Call(h, "createShader"), "shaderSource"), "compileShader")
      h1 == Call([h0 EXCEPT !.compiled[type] = IF ok THEN "ok" ELSE "failed"],
                 "getShaderParameter")
  IN  IF ~ok
        THEN LET h2 == Call(Call(h1, "getShaderInfoLog"), "deleteShader")
             IN  LogError([h2 EXCEPT !.deleted = @ \cup {type}], <<"compile", type>>)
        ELSE [Call(h1, "attachShader") EXCEPT !.attached = @ \cup {type}]

\* LINK_STATUS after linkProgram: GL links only a program that holds both a compiled
\* vertex and a compiled fragment shader
LinkStatus(h, ok) == h.attached = ShaderTypes /\ ok

\* _resize()
ResizeBody(h, sz) == [Call(h, "viewport") EXCEPT !.cn = sz, !.viewport = sz]

\* render(): the two uniform uploads, the draw call, the next frame requested
RenderBody(h) ==
  [Call(Call(Call(h, "uniform1f"), "uniform2f"), "drawArrays")
     EXCEPT !.vp = h.cn, !.raf = @ + 1]

\* a constructor that does not test this.gl
ContextMissingUnchecked(h) == FALSE

\* the constructor's test of this.gl
ContextMissing(h) == ~h.gl

\* a constructor that does not test LINK_STATUS
LinkFailedUnchecked(h) == FALSE

\* the constructor's test of LINK_STATUS
LinkFailed(h) == ~h.linked

\* the constructor from the link check on
AfterLink(h, sz) ==
  IF LinkFailed(h)
    THEN LogError(Call(h, "getProgramInfoLog"), <<"link">>)
    ELSE LET h1 == [Call(h, "useProgram") EXCEPT !.inUse = TRUE]
             h2 == Call(Call(h1, "getUniformLocation"), "getUniformLocation")
             h3 == [ResizeBody(h2, sz) EXCEPT !.listening = TRUE]
         IN  RenderBody(h3)

\* new WebGLHandler(canvas) with the window at size sz
Constructor(h, g, sz) ==
  LET h0 == [h EXCEPT !.constructed = TRUE, !.last = "constructor", !.gl = g.context]
  IN  IF ContextMissing(h0) THEN h0
      ELSE LET h1 == [Call(h0, "createProgram") EXCEPT !.program = TRUE]
               h2 == Compile(h1, "VERTEX_SHADER", g.vertex)
               h3 == Compile(h2, "FRAGMENT_SHADER", g.fragment)
               h4 == [Call(h3, "linkProgram") EXCEPT !.linked = LinkStatus(h3, g.link)]
           IN  AfterLink(Call(h4, "getProgramParameter"), sz)

\* the bootstrapping at the end of the script
Construct ==
  /\ ~handler.constructed
  /\ \E g \in GlOutcomes : handler' = Constructor(handler, g, win)
  /\ lastEvent' = "construct"
  /\ UNCHANGED <<win, canvas, particles, emberListening, emberRaf, log>>

\* the frame callback requested by render
Render ==
  /\ handler.raf > 0
  /\ handler' = RenderBody([handler EXCEPT !.calls = <<>>, !.last = "render", !.raf = @ - 1])
  /\ lastEvent' = "render"
  /\ UNCHANGED <<win, canvas, particles, emberListening, emberRaf, log>>

\* a resize listener that also calls render()
SmokeResizeRestarting(h, sz) ==
  IF h.listening
    THEN RenderBody(ResizeBody([h EXCEPT !.calls = <<>>, !.last = "_resize"], sz))
    ELSE h

\* the handler's resize listener
SmokeResize(h, sz) ==
  IF h.listening THEN ResizeBody([h EXCEPT !.calls = <<>>, !.last = "_resize"], sz) ELSE h

(***************************************************************************)
(* The host                                                                *)
(***************************************************************************)
\* the window takes size sz and dispatches a resize event to the registered listeners
Resize ==
  \E sz \in WindowSizes :
    /\ win' = sz
    /\ lastEvent' = "resize"
    /\ canvas' = EmberResize(sz)
    /\ handler' = SmokeResize(handler, sz)
    /\ UNCHANGED <<particles, emberListening, emberRaf, log>>

Init ==
  /\ win \in WindowSizes
  /\ lastEvent = "none"
  /\ canvas = win
  /\ particles \in [Indices -> {NewParticle(win, d) : d \in ConstructionDraws}]
  /\ emberListening = FALSE
  /\ emberRaf = 0
  /\ log = [i \in Indices |-> NoBranches]
  /\ handler = NoHandler

\* both scripts on the page
Next == LoadEmber \/ Frame \/ Construct \/ Render \/ Resize

Spec == Init /\ [][Next]_vars

\* script.js alone
NextEmber == LoadEmber \/ Frame \/ Resize

SpecEmber == Init /\ [][NextEmber]_vars

\* shader-smoke.js alone
NextSmoke == Construct \/ Render \/ Resize

SpecSmoke == Init /\ [][NextSmoke]_vars

\* script.js run to the end of the script and its frame callback scheduled fairly:
\* animateParticles, called by the script or by the host, runs again and again.  One
\* of LoadEmber and Frame is enabled in every state, so this is weak fairness of
\* LoadEmber \/ Frame with its enabling condition resolved.
FairEmber == SpecEmber /\ []<><<LoadEmber \/ Frame>>_vars

\* The update scenario of spec.md section 8: particles constructed with speed 1.0,
\* radius 3 and no loop, placed at y = 5 or at y = -3.0001, then run by script.js.
ScenarioYs == {5 * Scale, -3 * Scale - 1}

ScenarioDraws == { d \in ConstructionDraws : d.speed = 10 /\ d.coin = 30 /\ d.baseSize = 20 }

InitScenario ==
  /\ win \in WindowSizes
  /\ lastEvent = "none"
  /\ canvas = win
  /\ particles \in [Indices -> { [NewParticle(win, d) EXCEPT !.y = y0] :
                                    d \in ScenarioDraws, y0 \in ScenarioYs }]
  /\ emberListening = FALSE
  /\ emberRaf = 0
  /\ log = [i \in Indices |-> NoBranches]
  /\ handler = NoHandler

SpecScenario == InitScenario /\ [][NextEmber]_vars

(***************************************************************************)
(* Properties                                                              *)
(***************************************************************************)
\* the GL call names a sequence of calls holds
Called(h) == { h.calls[k] : k \in 1..Len(h.calls) }

\* the diagnostics written to console.error
Logged(h) == { h.errors[k] : k \in 1..Len(h.errors) }

\* the step just taken ran animateParticles
Animated == lastEvent' \in {"load", "frame"}

\* C1: once a shader stage has failed to compile or the program has failed to link
\* (and the failure has been logged), the handler issues no further GL call: the
\* constructor's calls end with the handling of the first failure, and no later
\* callback of the handler calls gl.
C1_NoGlCallAfterFailure ==
  handler.failedAt > 0 =>
    /\ handler.last = "constructor"
    /\ Len(handler.calls) = handler.failedAt

\* C2: whenever a shader stage has failed to compile, its diagnostic is logged, the
\* shader object is deleted and not attached, drawArrays and the uniform uploads are
\* never issued, render never runs and no frame callback is pending.
C2_CompileFailureHalts ==
  \A ty \in ShaderTypes :
    handler.compiled[ty] = "failed" =>
      /\ <<"compile", ty>> \in Logged(handler)
      /\ ty \in handler.deleted
      /\ ty \notin handler.attached
      /\ Called(handler) \cap {"drawArrays", "uniform1f", "uniform2f"} = {}
      /\ handler.last # "render"
      /\ handler.vp = <<>>
      /\ handler.raf = 0

\* a compile failure of the fragment stage alone, with a resize event delivered after
\* the constructor returned
C2_Witness ==
  /\ handler.compiled["VERTEX_SHADER"] = "ok"
  /\ handler.compiled["FRAGMENT_SHADER"] = "failed"
  /\ lastEvent = "resize"

\* C3: when getContext('webgl2') returns no context, the constructor returns without
\* throwing and the handler stays inert: no program, no GL call, no resize listener,
\* no pending frame callback, and the smoke canvas and viewport are never assigned,
\* whatever resize events follow.
C3_NoContextInert ==
  (handler.constructed /\ ~handler.gl) =>
    /\ ~handler.threw
    /\ ~handler.program
    /\ handler.calls = <<>>
    /\ handler.errors = <<>>
    /\ ~handler.listening
    /\ handler.raf = 0
    /\ handler.cn = <<>>
    /\ handler.viewport = <<>>

\* a handler built without a context, after the window was resized to another size
C3_Witness ==
  /\ handler.constructed
  /\ ~handler.gl
  /\ lastEvent = "resize"
  /\ win # canvas

\* x lies within the wrap margin of a canvas of size cv
InMargin(p, cv) == -10 * Scale <= p.x /\ p.x <= cv[1] * Scale + 10 * Scale

\* C4: immediately after an animateParticles step every particle has
\* -10 <= x <= canvas.width + 10; and in the step any particle is about to take,
\* the wrap changes x only if x < -10 or x > canvas.width + 10 held before it.
C4_XWithinMargin ==
  /\ lastEvent \in {"load", "frame"} => \A i \in Indices : InMargin(particles[i], canvas)
  /\ \A i \in Indices : \A t \in Times : \A d \in RespawnDraws \cup {NoDraw} :
       LET r == Respawned(particles[i], t, canvas, d)
       IN  Wrap(r, canvas).x # r.x => PastLeft(r) \/ PastRight(r, canvas)

\* a drifting particle (no loop) wrapped from the right edge to x = -10 by the last frame
C4_Witness ==
  /\ lastEvent = "frame"
  /\ \E i \in Indices :
       /\ log[i].wrap = "right"
       /\ particles[i].loopRadius = 0
       /\ particles[i].x = -10 * Scale

\* C5: in every animateParticles step and for every particle, the respawn branch is
\* taken exactly when y - speed < -radius, the radius being the one drawEmber set in
\* that step; y at the end of the step is then at least canvas.height, and otherwise
\* it is y - speed.
C5_RespawnExactlyOffTop ==
  [][Animated =>
       \A i \in Indices :
         LET yMoved == particles[i].y - particles[i].speed
             fired == log'[i].respawn
         IN  /\ fired <=> yMoved < -particles'[i].size
             /\ fired => particles'[i].y >= canvas[2] * Scale
             /\ ~fired => particles'[i].y = yMoved]_vars

\* a particle respawned by the last frame and not wrapped
C5_Witness ==
  /\ lastEvent = "frame"
  /\ \E i \in Indices :
       /\ log[i].respawn
       /\ log[i].wrap = "none"
       /\ particles[i].y = canvas[2] * Scale + particles[i].size

\* C7 as stated: a particle that respawns receives a freshly randomized baseX, angle,
\* loopRadius and flickerPhase.
C7_RespawnRandomizesPhase ==
  \A i \in Indices :
    log[i].respawn => {"baseX", "angle", "loopRadius", "flickerPhase"} \subseteq log[i].drawn

\* C7 amended: a particle that respawns is placed at canvas.height + radius and
\* receives a fresh baseX, angle and loopRadius and no other random value, x being
\* baseX + sin(angle) * loopRadius of the new values unless the horizontal wrap then
\* moves it; flickerPhase, baseSize, speed, drift and angularSpeed keep their values.
C7_RespawnKeepsPhase ==
  [][Animated =>
       \A i \in Indices :
         log'[i].respawn =>
           LET p == particles[i]
               q == particles'[i]
           IN  /\ log'[i].drawn = {"baseX", "angle", "loopRadius"}
               /\ q.flickerPhase = p.flickerPhase
               /\ q.baseSize = p.baseSize /\ q.speed = p.speed
               /\ q.drift = p.drift /\ q.angularSpeed = p.angularSpeed
               /\ q.y = canvas[2] * Scale + q.size
               /\ q.baseX \in { RandomTimes(k, canvas[1]) : k \in BaseXDraws }
               /\ q.angle \in AngleDraws
               /\ q.loopRadius \in { LoopRadiusOf(c, k) : c \in CoinDraws, k \in LoopDraws }
               /\ log'[i].wrap = "none" => q.x = LoopX(q.baseX, q.angle, q.loopRadius)]_vars

\* a looping particle respawned by the last frame with the flicker phase pi
C7_Witness ==
  /\ lastEvent = "frame"
  /\ \E i \in Indices :
       /\ log[i].respawn
       /\ particles[i].loopRadius > 0
       /\ particles[i].flickerPhase = 30

\* C10: the horizontal wrap changes no field but x; and in the step after a wrap (if
\* that step neither respawns nor wraps the particle again) a looping particle has
\* x = baseX + sin(angle) * loopRadius of its drifted, un-wrapped anchor, while a
\* particle without loop has the wrapped x plus drift.
C10_WrapAssignsOnlyX ==
  [][Animated =>
       \A i \in Indices :
         LET p == particles[i]
             q == particles'[i]
         IN  /\ \A t \in Times : \A d \in RespawnDraws \cup {NoDraw} :
                  LET r == Respawned(p, t, canvas, d)
                  IN  [Wrap(r, canvas) EXCEPT !.x = r.x] = r
             /\ (log[i].wrap # "none" /\ ~log'[i].respawn /\ log'[i].wrap = "none") =>
                  IF p.loopRadius > 0
                    THEN /\ q.baseX = p.baseX + p.drift
                         /\ q.angle = p.angle + p.angularSpeed
                         /\ q.x = LoopX(q.baseX, q.angle, q.loopRadius)
                    ELSE q.x = p.x + p.drift]_vars

\* a looping particle wrapped from the left edge to canvas.width + 10 by the last
\* frame, whose next step can leave it neither respawned nor wrapped
C10_Witness ==
  /\ lastEvent = "frame"
  /\ \E i \in Indices :
       /\ log[i].wrap = "left"
       /\ particles[i].loopRadius > 0
       /\ particles[i].x = canvas[1] * Scale + 10 * Scale
       /\ \E t \in Times :
            LET b == Branches(particles[i], t, canvas, NoDraw)
            IN  ~b.respawn /\ b.wrap = "none"

\* the particle of the update scenario, as constructed: speed 1.0, radius 3, no loop
ScenarioParticle(p) == p.speed = Scale /\ p.size = 3 * Scale /\ p.loopRadius = 0

ResizedFields == {"cn", "viewport", "calls", "last"}

\* C8: a resize event sets the canvas of every component that listens to the new
\* window size (and the GL viewport of the smoke handler) and changes nothing else of
\* it: the particles array keeps its EMBER_COUNT elements and every field of them, no
\* frame callback is added or removed, and each running loop has exactly one pending
\* frame callback before and after.
C8_ResizeOnlyResizes ==
  [][lastEvent' = "resize" =>
       /\ emberListening =>
            /\ canvas' = win'
            /\ DOMAIN particles' = 1..EMBER_COUNT
            /\ particles' = particles
            /\ log' = log
            /\ emberRaf = 1 /\ emberRaf' = 1
       /\ handler.listening =>
            /\ handler'.cn = win'
            /\ handler'.viewport = win'
            /\ handler'.calls = <<"viewport">>
            /\ handler.raf = 1 /\ handler'.raf = 1
            /\ \A f \in DOMAIN handler \ ResizedFields : handler'[f] = handler[f]]_vars

\* both loops running, the window resized since the smoke renderer's last frame, a
\* particle respawned by the last ember frame still as that frame left it
C8_Witness ==
  /\ lastEvent = "resize"
  /\ emberListening /\ canvas = win
  /\ handler.listening /\ handler.cn = win /\ handler.viewport = win
  /\ handler.vp # win
  /\ \E i \in Indices : log[i].respawn

\* C9: with the frame callback scheduled fairly, every particle respawns again and
\* again, whatever resize events are interleaved.
C9_RespawnsForever == \A i \in Indices : []<>(log[i].respawn)

\* every particle respawned by the very first animateParticles call
C9_Witness ==
  /\ lastEvent = "load"
  /\ emberRaf = 1
  /\ \A i \in Indices : log[i].respawn
====
